---- MODULE Spec2Model ----
(***************************************************************************)
(* Model of src/index.js: the Express server that reconciles Shopify       *)
(* orders with the Fintrix payment gateway.                                *)
(*                                                                         *)
(* src/index.js holds two versions of the server one after the other.      *)
(* The model follows the first one (lines 1-201), whose routes are the     *)
(* ones registered first; where the second one (lines 203-395) differs it  *)
(* is said at the definition.                                              *)
(*                                                                         *)
(* Strings the code builds or takes apart (ids, timestamps, refIds) are    *)
(* sequences of one-character strings.  Every handler that awaits an       *)
(* outbound call is two actions: the part up to the await, and the part    *)
(* that runs when the call returns or throws.  Handlers suspended at their *)
(* await and the outbound calls made so far are kept as bags.              *)
(***************************************************************************)
EXTENDS Integers, Sequences, FiniteSets, Bags, TLC

\* ------------------------------------------------------------------ bounds
MaxRequests == 3      \* requests delivered in one behaviour
MaxTicks    == 1      \* times the clock is seen to advance in one behaviour

\* ------------------------------------------------------------ characters
DigitChars == <<"0", "1", "2", "3", "4", "5", "6", "7", "8", "9">>

IsDigit(c) == \E i \in 1..10 : DigitChars[i] = c

\* Number.prototype.toString / string concatenation of a number: decimal digits
RECURSIVE ToDigits(_)
ToDigits(n) ==
  IF n < 10 THEN <<DigitChars[n + 1]>>
  ELSE ToDigits(n \div 10) \o <<DigitChars[(n % 10) + 1]>>

LIK == <<"L", "I", "K">>

\* JS null / undefined / '' : every falsy value the handlers test for
Null == <<>>

\* every value taken for a truthy one
TruthyAny(v) == TRUE

Truthy(v) == v # Null

\* ------------------------------------------------------- verification
SHOPIFY_WEBHOOK_SECRET == "shopify-secret"
OtherSecret == "other-secret"

\* crypto.createHmac('sha256', key).update(body).digest('base64'), as an
\* ideal keyed MAC: equal digests only for equal key and equal bytes.
Hmac(key, body) == <<"hmac", key, body>>

\* verifyShopifyWebhook: TRUE when the middleware calls next()
VerifyShopifyAlwaysNext(rawBody, hmacHeader) == TRUE

VerifyShopifyWebhook(rawBody, hmacHeader) ==
  Hmac(SHOPIFY_WEBHOOK_SECRET, rawBody) = hmacHeader

\* whether the header is the storefront's signature of exactly these bytes
\* (a fact about the request, kept with it; the handlers do not read it)
SignedBySender(rawBody, hmacHeader) ==
  hmacHeader = Hmac(SHOPIFY_WEBHOOK_SECRET, rawBody)

\* verifyFintrixWebhook: the placeholder calls next() whatever the request is
VerifyFintrixWebhook(authentic) == TRUE

\* ------------------------------------------------------- request inputs
OrderIdNums == {1, 11}                 \* order.id of the storefront
Phones      == {Null, <<"+", "1">>}
FinStatuses == {"pending", "paid"}

\* raw body bytes of an order-creation event; the last component says what
\* the bytes are: an order, an order without id, or no JSON at all
OrderBodies == OrderIdNums \X FinStatuses \X Phones \X Phones \X {"order"}

MalformedBodies ==
  {<<1, "pending", <<"+", "1">>, Null, shape>> : shape \in {"order-without-id", "not-json"}}

RawBodies == OrderBodies \cup MalformedBodies

\* whether JSON.parse(req.body.toString()) returns; it throws a SyntaxError
\* on bytes that are no JSON
Parses(raw) == raw[5] # "not-json"

\* JSON.parse(req.body.toString()); has_id: order.id is not undefined
JSONparse(raw) ==
  [id |-> raw[1], has_id |-> raw[5] # "order-without-id",
   financial_status |-> raw[2],
   billing_phone |-> raw[3], shipping_phone |-> raw[4]]

\* order.billing_address?.phone || order.shipping_address?.phone
CustomerMobile(order) ==
  IF Truthy(order.billing_phone) THEN order.billing_phone ELSE order.shipping_phone

\* 'LIK' + orderId + Date.now()
RefId(orderId, t) == LIK \o orderId \o ToDigits(t)

\* req.query.order_id of the two GET routes
QueryOrderIds == {ToDigits(n) : n \in OrderIdNums}

\* ------------------------------------------------------------- the regex
\* positions where 'LIK' followed by a digit starts in s
LIKPositions(s) ==
  {i \in 1..Len(s) :
     /\ i + 3 <= Len(s)
     /\ SubSeq(s, i, i + 2) = LIK
     /\ IsDigit(s[i + 3])}

Min(S) == CHOOSE x \in S : \A y \in S : x <= y
Max(S) == CHOOSE x \in S : \A y \in S : y <= x

\* order_id.match(/LIK(\d+)/): group 1 of the leftmost match, \d+ greedy;
\* Null when there is no match
MatchLIKDigits(s) ==
  IF LIKPositions(s) = {} THEN Null
  ELSE LET i == Min(LIKPositions(s))
           j == Max({k \in (i + 3)..Len(s) : \A m \in (i + 3)..k : IsDigit(s[m])})
       IN  SubSeq(s, i + 3, j)

\* an order_id and a status of the payin event that are JSON values other
\* than strings (a number, an object): truthy, without match / toUpperCase
NonStringOrderId == <<"number">>
NonStringStatus  == "[object]"

\* typeof order_id === 'string', typeof status === 'string'
IsStringOrderId(v) == v # NonStringOrderId

IsStringStatus(v) == v # NonStringStatus

\* status.toUpperCase() on the statuses the gateway sends
Statuses == {"SUCCESS", "success", "FAILED"}

ToUpperCase(s) ==
  CASE s = "success" -> "SUCCESS"
    [] s = "failed"  -> "FAILED"
    [] OTHER         -> s

\* ------------------------------------------------------------------ state
VARIABLES
  now,              \* Date.now()
  ticks,            \* number of times the clock has advanced
  paymentUrls,      \* Map: Shopify order id -> payment URL
  orderIdToRefId,   \* Map: Shopify order id -> Fintrix refId
  pending,          \* bag of handlers suspended at `await axios.post(...)`
  res,              \* the response sent last
  delivered,        \* number of requests delivered so far
  answered,         \* number of responses sent so far
  transportFailed,  \* order ids with an intake delivery answered 500
  createCalls,      \* bag: POST {FINTIRX_BASE_URL}/api/create-order calls made
  captureCalls,     \* bag: POST .../orders/{id}/transactions.json calls made
  statusCalls       \* bag: POST {FINTIRX_BASE_URL}/api/check-order-status calls made

vars == <<now, ticks, paymentUrls, orderIdToRefId, pending, res, delivered,
          answered, transportFailed, createCalls, captureCalls, statusCalls>>

\* a lookup that finds no entry
MapGetMisses(m, k) == Null

\* Map.get / Map.set / Map.delete
MapGet(m, k) == IF k \in DOMAIN m THEN m[k] ELSE Null

MapSet(m, k, v) == [x \in DOMAIN m \cup {k} |-> IF x = k THEN v ELSE m[x]]

MapDeleteKeeps(m, k) == m

\* every entry removed, as by Map.prototype.clear
MapDeleteAll(m, k) == [x \in {} |-> Null]

MapDelete(m, k) == [x \in DOMAIN m \ {k} |-> m[x]]

EmptyMap == [x \in {} |-> Null]

\* the locals a suspended handler holds: for intake and status the Shopify
\* order id and the refId, for payin the extracted id and the event's order_id.
\* authentic is the request's origin, which no handler reads: for intake
\* SignedBySender, for payin whether the gateway sent the event.
Handler(kind, orderId, refId, authentic) ==
  [kind |-> kind, orderId |-> orderId, refId |-> refId, authentic |-> authentic]

\* a response: the request it answers, the HTTP status, the text sent with
\* res.send (body) or the value sent with res.json (payload)
Response(h, status, body, payload) ==
  [kind |-> h.kind, orderId |-> h.orderId, refId |-> h.refId, authentic |-> h.authentic,
   status |-> status, body |-> body, payload |-> payload]

NoResponse == Response(Handler("none", Null, Null, TRUE), 0, "", Null)

\* the handler returns after sending a response
Send(h, status, body, payload) ==
  /\ res' = Response(h, status, body, payload)
  /\ answered' = answered + 1

\* the handler reaches its await, or ends, without sending a response
NoSend == UNCHANGED <<res, answered>>

\* an exception leaves the async handler before its try block: the promise
\* the handler returned is rejected.  Express 4 ignores that promise and no
\* response is sent for the request; Express 5 passes the error to its
\* default error handler, which answers 500.
Escapes(h) ==
  \/ NoSend
  \/ Send(h, 500, "Internal Server Error", Null)

\* the handler reaches its await
Suspend(h) == pending' = pending (+) SetToBag({h})

\* a suspended handler is resumed
Resume(h) == pending' = pending (-) SetToBag({h})

Suspended(kind) == {h \in BagToSet(pending) : h.kind = kind}

CanDeliver == delivered < MaxRequests

\* number of elements of the bag B, with their copies, that are in the set S
RECURSIVE SumCopies(_, _)
SumCopies(B, S) ==
  IF S = {} THEN 0
  ELSE LET x == CHOOSE y \in S : TRUE
       IN  CopiesIn(x, B) + SumCopies(B, S \ {x})

\* the payment URL the gateway issues for an order_id it was sent
GatewayPaymentUrl(refId) == <<"pay">> \o refId

Init ==
  /\ now = 1
  /\ ticks = 0
  /\ paymentUrls = EmptyMap
  /\ orderIdToRefId = EmptyMap
  /\ pending = EmptyBag
  /\ res = NoResponse
  /\ delivered = 0
  /\ answered = 0
  /\ transportFailed = {}
  /\ createCalls = EmptyBag
  /\ captureCalls = EmptyBag
  /\ statusCalls = EmptyBag

\* milliseconds that pass between two readings of the clock: enough for the
\* reading to gain a digit (Date.now() is appended to the order id as decimal
\* digits, so this is the advance that moves the boundary between the two)
ClockSteps == {10}

\* time passes
Tick ==
  /\ ticks < MaxTicks
  /\ ticks' = ticks + 1
  /\ \E d \in ClockSteps : now' = now + d
  /\ UNCHANGED <<paymentUrls, orderIdToRefId, pending, res, delivered,
                 answered, transportFailed, createCalls, captureCalls, statusCalls>>

\* ------------------------------------------- POST /shopify-order-webhook
\* the middleware chain and the handler up to `await axios.post(...)`
ShopifyOrderWebhook(rawBody, hmacHeader) ==
  /\ CanDeliver
  /\ delivered' = delivered + 1
  /\ LET order   == JSONparse(rawBody)
         orderId == ToDigits(order.id)
         refId   == RefId(orderId, now)
         signed  == SignedBySender(rawBody, hmacHeader)
         early   == Handler("intake", Null, Null, signed)
     IN
     IF ~VerifyShopifyWebhook(rawBody, hmacHeader) THEN
       /\ Send(early, 401, "Webhook verification failed.", Null)
       /\ UNCHANGED <<pending, createCalls>>
     ELSE IF ~Parses(rawBody) THEN
       /\ Escapes(early)
       /\ UNCHANGED <<pending, createCalls>>
     ELSE IF order.financial_status # "pending" THEN
       /\ Send(early, 200, "Not a pending order", Null)
       /\ UNCHANGED <<pending, createCalls>>
     ELSE IF ~Truthy(CustomerMobile(order)) THEN
       /\ Send(early, 200, "Missing mobile", Null)
       /\ UNCHANGED <<pending, createCalls>>
     ELSE IF ~order.has_id THEN
       \* order.id.toString() throws a TypeError
       /\ Escapes(early)
       /\ UNCHANGED <<pending, createCalls>>
     ELSE
       /\ createCalls' = createCalls (+) SetToBag({[orderId |-> orderId, order_id |-> refId]})
       /\ Suspend(Handler("intake", orderId, refId, signed))
       /\ NoSend
  /\ UNCHANGED <<now, ticks, paymentUrls, orderIdToRefId, transportFailed,
                 captureCalls, statusCalls>>

\* what the create-order call can come back with: response.data.status true
\* with a result, true without a result, not true, or the call throws
CreateOutcomes == {"ok", "okNoResult", "rejected", "throws"}

\* the ref map left as it is (the second version of the handler stores no refId)
StoreRefSkipped(m, orderId, refId) == m

\* the refId stored only for an order that has none yet
StoreRefIfAbsent(m, orderId, refId) ==
  IF orderId \in DOMAIN m THEN m ELSE MapSet(m, orderId, refId)

\* orderIdToRefId.set(orderId, refId)
StoreRef(m, orderId, refId) == MapSet(m, orderId, refId)

\* every failure of the call answered as a server error
CreateStatusAllErrors(outcome) == IF outcome = "ok" THEN 200 ELSE 500

\* the status the handler answers with: 200 from the try block (processed,
\* or provider error), 500 from the catch (the call threw, or reading
\* result.payment_url of a response without result threw)
CreateStatus(outcome) == IF outcome \in {"ok", "rejected"} THEN 200 ELSE 500

\* the handler from the await on: the rest of the try block, and the catch
CreateOrderReturns(h, outcome) ==
  /\ h \in Suspended("intake")
  /\ Resume(h)
  /\ CASE outcome = "ok" ->
            /\ paymentUrls' = MapSet(paymentUrls, h.orderId, GatewayPaymentUrl(h.refId))
            /\ orderIdToRefId' = StoreRef(orderIdToRefId, h.orderId, h.refId)
            /\ Send(h, CreateStatus(outcome), "Order processed", Null)
       [] outcome = "okNoResult" ->
            \* status === true but no result: reading payment_url throws, caught
            /\ Send(h, CreateStatus(outcome), "Server error", Null)
            /\ UNCHANGED <<paymentUrls, orderIdToRefId>>
       [] outcome = "rejected" ->
            /\ Send(h, CreateStatus(outcome), "Provider error", Null)
            /\ UNCHANGED <<paymentUrls, orderIdToRefId>>
       [] outcome = "throws" ->
            /\ Send(h, CreateStatus(outcome), "Server error", Null)
            /\ UNCHANGED <<paymentUrls, orderIdToRefId>>
  /\ transportFailed' =
       IF CreateStatus(outcome) = 500 THEN transportFailed \cup {h.orderId}
       ELSE transportFailed
  /\ UNCHANGED <<now, ticks, delivered, createCalls, captureCalls, statusCalls>>

\* ------------------------------------------------- GET /get-payment-url
GetPaymentUrl(order_id) ==
  /\ CanDeliver
  /\ delivered' = delivered + 1
  /\ LET paymentUrl == MapGet(paymentUrls, order_id)
         h          == Handler("link", order_id, Null, TRUE)
     IN
     IF Truthy(paymentUrl) THEN
       /\ paymentUrls' = MapDelete(paymentUrls, order_id)
       /\ Send(h, 200, "json", paymentUrl)
     ELSE
       /\ Send(h, 200, "json", Null)
       /\ UNCHANGED paymentUrls
  /\ UNCHANGED <<now, ticks, orderIdToRefId, pending, transportFailed,
                 createCalls, captureCalls, statusCalls>>

\* ---------------------------------------------------- POST /payin-webhook
\* order_id values a sender that never saw a refId can put in the event
ForgedOrderIds == {LIK \o <<"1">>, <<"K", "1">>}

\* the middleware chain and the handler up to `await axios.post(...)`.
\* authentic: whether the event really comes from the gateway.
PayinWebhook(order_id, status, authentic) ==
  /\ CanDeliver
  /\ delivered' = delivered + 1
  /\ LET shopifyOrderId == MatchLIKDigits(order_id)
         early          == Handler("payin", Null, order_id, authentic)
         h              == Handler("payin", shopifyOrderId, order_id, authentic)
     IN
     IF ~VerifyFintrixWebhook(authentic) THEN
       /\ Send(early, 401, "Fintrix webhook verification failed.", Null)
       /\ UNCHANGED <<pending, captureCalls>>
     ELSE IF ~Truthy(order_id) \/ status = "" THEN
       /\ Send(early, 400, "Invalid payload", Null)
       /\ UNCHANGED <<pending, captureCalls>>
     ELSE IF ~IsStringOrderId(order_id) THEN
       \* order_id.match is not a function: TypeError
       /\ Escapes(early)
       /\ UNCHANGED <<pending, captureCalls>>
     ELSE IF ~Truthy(shopifyOrderId) THEN
       /\ Send(early, 400, "Invalid ref_id format", Null)
       /\ UNCHANGED <<pending, captureCalls>>
     ELSE IF ~IsStringStatus(status) THEN
       \* status.toUpperCase is not a function: TypeError
       /\ Escapes(h)
       /\ UNCHANGED <<pending, captureCalls>>
     ELSE IF ToUpperCase(status) # "SUCCESS" THEN
       /\ Send(h, 200, "Payment was not successful", Null)
       /\ UNCHANGED <<pending, captureCalls>>
     ELSE
       /\ captureCalls' = captureCalls (+)
            SetToBag({[orderId |-> shopifyOrderId, order_id |-> order_id,
                       authentic |-> authentic]})
       /\ Suspend(h)
       /\ NoSend
  /\ UNCHANGED <<now, ticks, paymentUrls, orderIdToRefId, transportFailed,
                 createCalls, statusCalls>>

\* what the capture call can come back with: a transaction with status
\* success, a response that reports a transaction that is not a success,
\* or the call throws
CaptureOutcomes == {"ok", "notSuccess", "throws"}

\* the handler from the await on; the storefront's answer is not inspected
\* (the second version sends 'Capture failed' when transaction.status is
\* not 'success')
CaptureReturns(h, outcome) ==
  /\ h \in Suspended("payin")
  /\ Resume(h)
  /\ IF outcome = "throws"
       THEN Send(h, 500, "Server error", Null)
       ELSE Send(h, 200, "Success", Null)
  /\ UNCHANGED <<now, ticks, paymentUrls, orderIdToRefId, delivered,
                 transportFailed, createCalls, captureCalls, statusCalls>>

\* ------------------------------------------------------ GET /check-status
\* the refId rebuilt from the order id instead of looked up
StatusRefIdRebuilt(m, orderId) == LIK \o orderId

\* orderIdToRefId.get(orderId)
StatusRefId(m, orderId) == MapGet(m, orderId)

CheckStatus(order_id) ==
  /\ CanDeliver
  /\ delivered' = delivered + 1
  /\ LET refId == StatusRefId(orderIdToRefId, order_id)
     IN
     IF ~Truthy(refId) THEN
       /\ Send(Handler("status", order_id, Null, TRUE), 404,
               "Order not found or not processed yet", Null)
       /\ UNCHANGED <<pending, statusCalls>>
     ELSE
       /\ statusCalls' = statusCalls (+) SetToBag({[order_id |-> refId]})
       /\ Suspend(Handler("status", order_id, refId, TRUE))
       /\ NoSend
  /\ UNCHANGED <<now, ticks, paymentUrls, orderIdToRefId, transportFailed,
                 createCalls, captureCalls>>

\* response.data of the status-check endpoint
GatewayStatusPayloads == {<<"COMPLETED">>, <<"PENDING">>}

\* res.json(response.data)
StatusResponse(data) == data

\* the handler from the await on; reply = Null: the call throws
CheckStatusReturns(h, reply) ==
  /\ h \in Suspended("status")
  /\ Resume(h)
  /\ IF Truthy(reply)
       THEN Send(h, 200, "json", StatusResponse(reply))
       ELSE Send(h, 500, "Failed to check status", Null)
  /\ UNCHANGED <<now, ticks, paymentUrls, orderIdToRefId, delivered,
                 transportFailed, createCalls, captureCalls, statusCalls>>

\* ------------------------------------------------------------------- Next
\* signature headers a sender can put on a body: the signature of these
\* bytes, the signature of the event before its financial status was
\* changed, a signature under another key, and no header
HmacHeaders(rawBody) ==
  {Hmac(SHOPIFY_WEBHOOK_SECRET, <<rawBody[1], f, rawBody[3], rawBody[4], rawBody[5]>>) :
     f \in FinStatuses}
    \cup {Hmac(OtherSecret, rawBody), Null}

PayinOrderIds ==
  {Null, NonStringOrderId} \cup {c.order_id : c \in BagToSet(createCalls)} \cup ForgedOrderIds

PayinStatuses == Statuses \cup {"", NonStringStatus}

Next ==
  \/ Tick
  \/ \E b \in RawBodies : \E h \in HmacHeaders(b) : ShopifyOrderWebhook(b, h)
  \/ \E h \in BagToSet(pending), o \in CreateOutcomes : CreateOrderReturns(h, o)
  \/ \E q \in QueryOrderIds : GetPaymentUrl(q)
  \/ \E o \in PayinOrderIds, s \in PayinStatuses, a \in BOOLEAN : PayinWebhook(o, s, a)
  \/ \E h \in BagToSet(pending), o \in CaptureOutcomes : CaptureReturns(h, o)
  \/ \E q \in QueryOrderIds : CheckStatus(q)
  \/ \E h \in BagToSet(pending), p \in GatewayStatusPayloads \cup {Null} : CheckStatusReturns(h, p)

Spec == Init /\ [][Next]_vars

\* ================================================================ claims
CallsForOrder(B, o) == SumCopies(B, {c \in BagToSet(B) : c.orderId = o})

\* refIds the intake handler has generated so far (each was sent to the
\* gateway); the refIds it has stored are among them
GeneratedRefs == {k.order_id : k \in BagToSet(createCalls)}

\* a step that delivers a request and answers it without suspending: res'
\* is the response to the request delivered
RespondedAtOnce == delivered' = delivered + 1 /\ answered' = answered + 1

\* the handlers that reach their await in this step
NewlySuspended == BagToSet(pending' (-) pending)

\* C1: for every orderId, however many verified deliveries with financial
\* status 'pending' and a phone arrive for it, one create-order call is made
\* for that orderId (every such delivery makes a call, so: never two).
C1_OneCreateCallPerOrder ==
  \A o \in QueryOrderIds : CallsForOrder(createCalls, o) <= 1

\* C2: for every orderId, success events delivered more than once lead to
\* at most one transaction-capture call for that orderId.
C2_AtMostOneCapture ==
  \A c \in BagToSet(captureCalls) : CallsForOrder(captureCalls, c.orderId) <= 1

\* C3: a payment-result event whose order_id is not a refId of the intake
\* handler (here: one it never even generated) triggers no capture call and
\* is answered 400.
C3_UnresolvableNeverCaptured ==
  /\ \A c \in BagToSet(captureCalls) : c.order_id \in GeneratedRefs
  /\ (res.kind = "payin" /\ res.refId \notin GeneratedRefs) => res.status = 400

\* C4: when the refId generated for an orderId comes back as the order_id of
\* a success event, the capture call is addressed to that orderId.
C4_RoundTrip ==
  \A c \in BagToSet(captureCalls) : \A k \in BagToSet(createCalls) :
    c.order_id = k.order_id => c.orderId = k.orderId

\* C5: a payment-link request for an orderId whose link is stored returns the
\* link and removes it; a payment-link request for the orderId that comes
\* right after such a response (no response of another handler in between)
\* returns null.
C5_LinkOnceThenNull ==
  [][\A q \in QueryOrderIds :
       GetPaymentUrl(q) =>
         /\ Truthy(MapGet(paymentUrls, q)) =>
              /\ res'.payload = paymentUrls[q]
              /\ q \notin DOMAIN paymentUrls'
         /\ (res.kind = "link" /\ res.orderId = q /\ Truthy(res.payload)) =>
              res'.payload = Null]_vars

\* the last response is a null link for an order whose intake was stored
\* and whose link is gone: it was fetched, and the fetch after it got null
C5_Witness ==
  /\ res.kind = "link"
  /\ res.payload = Null
  /\ res.orderId \in DOMAIN orderIdToRefId
  /\ res.orderId \notin DOMAIN paymentUrls

\* C6: an order-intake request whose signature header is not the keyed MAC
\* of its raw body is answered 401 in the step that delivers it, with no
\* outbound call and no change to the payment-link map or the ref map; it
\* never gets to the await of the create-order call.
C6_BadSignatureRejected ==
  [][/\ (RespondedAtOnce /\ res'.kind = "intake" /\ ~res'.authentic) =>
          /\ res'.status = 401
          /\ UNCHANGED <<paymentUrls, orderIdToRefId,
                         createCalls, captureCalls, statusCalls>>
     /\ \A h \in NewlySuspended : h.kind = "intake" => h.authentic]_vars

C6_Witness ==
  /\ res.kind = "intake"
  /\ ~res.authentic
  /\ res.status = 401
  /\ createCalls = EmptyBag

\* C7: two create-order calls for different orderIds never carry the same
\* refId, whatever the times at which the refIds were generated.
C7_DistinctOrdersDistinctRefs ==
  \A c1 \in BagToSet(createCalls) : \A c2 \in BagToSet(createCalls) :
    c1.orderId # c2.orderId => c1.order_id # c2.order_id

\* C8: once the ref map holds a refId for an orderId, no step changes or
\* removes it.
C8_RefNeverChanges ==
  [][\A o \in DOMAIN orderIdToRefId :
       /\ o \in DOMAIN orderIdToRefId'
       /\ orderIdToRefId'[o] = orderIdToRefId[o]]_vars

\* C9: a status query for an orderId without a stored refId is answered 404
\* and makes no status-check call; one for an orderId with a stored refId
\* makes one status-check call carrying the stored refId, and when the
\* gateway answers, the response is the gateway's payload.
C9_StatusQuery ==
  [][/\ \A q \in QueryOrderIds :
          CheckStatus(q) =>
            IF q \notin DOMAIN orderIdToRefId
              THEN /\ res'.kind = "status"
                   /\ res'.status = 404
                   /\ statusCalls' = statusCalls
                   /\ pending' = pending
              ELSE /\ statusCalls' =
                        statusCalls (+) SetToBag({[order_id |-> orderIdToRefId[q]]})
                   /\ res' = res
                   /\ answered' = answered
     /\ \A h \in Suspended("status") : \A p \in GatewayStatusPayloads :
          CheckStatusReturns(h, p) =>
            /\ res'.status = 200
            /\ res'.payload = p
            /\ statusCalls' = statusCalls]_vars

\* a status query was answered with the gateway's payload, after one
\* status-check call with the stored refId
C9_Witness ==
  /\ res.kind = "status"
  /\ res.status = 200
  /\ Truthy(res.payload)
  /\ res.refId = MapGet(orderIdToRefId, res.orderId)
  /\ statusCalls = SetToBag({[order_id |-> res.refId]})

\* C10: a payment-result event that does not come from the gateway is
\* answered 401 and triggers no capture call.
C10_UnauthenticRejected ==
  /\ \A c \in BagToSet(captureCalls) : c.authentic
  /\ (res.kind = "payin" /\ ~res.authentic) => res.status = 401

\* C11: the refId of every create-order call made, in flight or completed,
\* is the refId a lookup of its orderId in the ref map finds.
C11_RefStoredBeforeCall ==
  \A k \in BagToSet(createCalls) : MapGet(orderIdToRefId, k.orderId) = k.order_id

\* C16: no two create-order calls carry the same refId for the same orderId,
\* also when both deliveries read the same value of the clock.
C16_SameOrderDistinctRefs ==
  \A k \in BagToSet(createCalls) : CopiesIn(k, createCalls) = 1

\* C13: when the gateway explicitly rejects (status not true) the intake
\* handler answers 200 and stores no link; when the call throws, or a
\* success response has no result, it answers 500.
C13_RejectionIsNotTransportError ==
  [][\A h \in Suspended("intake") :
       /\ CreateOrderReturns(h, "rejected") =>
            /\ res'.status = 200
            /\ paymentUrls' = paymentUrls
       /\ \A o \in {"throws", "okNoResult"} :
            CreateOrderReturns(h, o) => res'.status = 500]_vars

\* a call the gateway rejected was answered 200 'Provider error', and the
\* order has no link stored
C13_Witness ==
  /\ res.kind = "intake"
  /\ res.status = 200
  /\ res.body = "Provider error"
  /\ res.orderId \notin DOMAIN paymentUrls

\* C17: when the capture call comes back with a transaction that is not a
\* success, the payin handler does not send the response it sends for a
\* successful capture.
C17_CaptureFailureSurfaced ==
  [][\A h \in Suspended("payin") :
       CaptureReturns(h, "notSuccess") =>
         ~(res'.status = 200 /\ res'.body = "Success")]_vars

\* C19: every orderId with a link in the payment-link map has a refId in
\* the ref map.
C19_LinkImpliesRef ==
  DOMAIN paymentUrls \subseteq DOMAIN orderIdToRefId

\* a link is stored
C19_Witness ==
  \E o \in DOMAIN paymentUrls : Truthy(paymentUrls[o])

\* C20: the link stored for an orderId is the one the gateway issued for
\* the refId stored for that orderId, in whatever order the responses of
\* concurrent intake deliveries arrive.
C20_LinkAndRefFromSameCall ==
  \A o \in DOMAIN paymentUrls :
    paymentUrls[o] = GatewayPaymentUrl(MapGet(orderIdToRefId, o))

\* two deliveries of one order were in flight at once and the later one was
\* answered first: its link and refId are stored while the earlier one
\* (with the refId of an earlier clock reading) is still suspended
C20_Witness ==
  \E h \in Suspended("intake") :
    /\ h.orderId \in DOMAIN paymentUrls
    /\ orderIdToRefId[h.orderId] = RefId(h.orderId, now)
    /\ h.refId # RefId(h.orderId, now)

\* C15: a payment-link request removes at most the link of the orderId it
\* asks for: the ref map and the links of the other orders stay as they
\* are; and a status query is answered 404 only for an orderId without a
\* refId, so not for one whose link was consumed.
C15_ConsumingLinkKeepsRef ==
  [][/\ (RespondedAtOnce /\ res'.kind = "link") =>
          /\ orderIdToRefId' = orderIdToRefId
          /\ DOMAIN paymentUrls \ {res'.orderId} \subseteq DOMAIN paymentUrls'
          /\ DOMAIN paymentUrls' \subseteq DOMAIN paymentUrls
          /\ \A o \in DOMAIN paymentUrls' : paymentUrls'[o] = paymentUrls[o]
     /\ (RespondedAtOnce /\ res'.kind = "status" /\ res'.status = 404) =>
          res'.orderId \notin DOMAIN orderIdToRefId]_vars

\* a status query for an order whose link was consumed got the gateway's
\* payload
C15_Witness ==
  /\ res.kind = "status"
  /\ res.status = 200
  /\ res.orderId \in DOMAIN orderIdToRefId
  /\ res.orderId \notin DOMAIN paymentUrls

\* C18: every request delivered to one of the four handlers gets exactly
\* one response once its outbound call has returned or failed: at any time
\* the requests delivered are those answered and those whose handler is
\* still waiting for its call.
C18_EveryRequestAnswered ==
  delivered = answered + BagCardinality(pending)

\* C12: a retry after a failed delivery can succeed.  Once an intake
\* delivery for an orderId was answered 500, a delivery of the same order
\* whose gateway call returns success stores the gateway's payment link for
\* that orderId, and a payment-link request for an orderId that has a link
\* stored is answered 200 with that link.
C12_RetryAfterFailureSucceeds ==
  [][/\ (/\ answered' = answered + 1
         /\ delivered' = delivered
         /\ res'.kind = "intake"
         /\ res'.body = "Order processed"
         /\ res'.orderId \in transportFailed) =>
          /\ res'.orderId \in DOMAIN paymentUrls'
          /\ paymentUrls'[res'.orderId] = GatewayPaymentUrl(res'.refId)
     /\ (/\ RespondedAtOnce
         /\ res'.kind = "link"
         /\ res'.orderId \in transportFailed
         /\ res'.orderId \in DOMAIN paymentUrls) =>
          /\ res'.status = 200
          /\ res'.payload = paymentUrls[res'.orderId]]_vars

\* an order with a delivery answered 500 had its link stored by another
\* delivery and handed out by the payment-link request that followed
C12_Witness ==
  /\ res.kind = "link"
  /\ Truthy(res.payload)
  /\ res.orderId \in transportFailed
  /\ res.orderId \in DOMAIN orderIdToRefId
  /\ delivered = answered

\* order events the intake handler does not act on: the financial status is
\* not 'pending', or neither address carries a phone
NotActionableBodies ==
  {b \in OrderBodies : b[2] # "pending" \/ (b[3] = Null /\ b[4] = Null)}

\* a delivery answered 200 at once: no gateway call made, no handler left
\* waiting, both maps as they were
AnsweredOkWithoutEffect ==
  /\ RespondedAtOnce
  /\ res'.status = 200
  /\ createCalls' = createCalls
  /\ pending' = pending
  /\ UNCHANGED <<paymentUrls, orderIdToRefId>>

\* what every delivery of a verified intake event shows: it is answered as
\* an intake request of the storefront, or not answered in this step
VerifiedIntakeStep ==
  /\ delivered' = delivered + 1
  /\ \/ answered' = answered
     \/ res'.kind = "intake" /\ res'.authentic

\* C14: an intake delivery changes the store only when the gateway returns
\* explicit success.  A verified event that is not pending or has no phone
\* is answered 200 at once, with no gateway call, no handler left waiting
\* and both maps as they were: a delivery that goes any other way is not
\* the delivery of such an event.  And a create-order call that comes back
\* rejected, without result or with an error leaves both maps as they
\* were: a step that changes a map is not the return of such a call.
C14_StoreChangesOnlyOnSuccess ==
  [][/\ (VerifiedIntakeStep /\ ~AnsweredOkWithoutEffect) =>
          \A b \in NotActionableBodies :
            ~ShopifyOrderWebhook(b, Hmac(SHOPIFY_WEBHOOK_SECRET, b))
     /\ (<<paymentUrls, orderIdToRefId>>' # <<paymentUrls, orderIdToRefId>>) =>
          \A h \in Suspended("intake"), o \in CreateOutcomes \ {"ok"} :
            ~CreateOrderReturns(h, o)]_vars

\* an event without phone was answered after a create-order call had come
\* back without success, and the store is still empty
C14_Witness ==
  /\ res.kind = "intake"
  /\ res.status = 200
  /\ res.body = "Missing mobile"
  /\ createCalls # EmptyBag
  /\ pending = EmptyBag
  /\ paymentUrls = EmptyMap
  /\ orderIdToRefId = EmptyMap

====
